---------------------------- MODULE Spec2Model ----------------------------
(***************************************************************************)
(* A model of tierkreis/frontend/runtime_client.py: the RuntimeClient     *)
(* methods, the worker decorator with_runtime_client, signature_from_proto *)
(* and async_to_sync.                                                      *)
(*                                                                         *)
(* Five specifications share the module, each over all the variables:      *)
(*   Spec        one caller driving one RuntimeClient, call by call;       *)
(*   SpecWorker  calls of a handler wrapped by with_runtime_client;        *)
(*   SpecSig     signature_from_proto on a ListFunctionsResponse;          *)
(*   SpecCoros   coroutines of one event loop sharing one RuntimeClient;   *)
(*   SpecBridge  threads calling through async_to_sync.                    *)
(* Every awaited stub call is a suspension point: the part of a coroutine  *)
(* before it and the part after it are separate actions.                   *)
(***************************************************************************)
EXTENDS Integers, Sequences, FiniteSets, TLC

VARIABLES
    \* ---- RuntimeClient and its caller (Spec)
    pc,        \* "idle", or the stub call the caller is suspended on
    op,        \* the client method the caller invoked last
    args,      \* its arguments
    sent,      \* requests sent over the channel by the current call
    resp,      \* the last response received from the server
    res,       \* outcome of the current call: none, return or raise
    stubs,     \* RuntimeClient._stubs: stub kind -> stub
    nstubs,    \* number of stub objects constructed so far
    ncalls,    \* number of client methods invoked so far
    deleted,   \* task id -> number of delete_task calls that named it
    \* ---- with_runtime_client (SpecWorker)
    callback,  \* worker.callback: unknown (None) or a (host, port) pair
    keyring,   \* credential store: what get_password does for "token", "key"
    channels,  \* every Channel constructed so far, in order of construction
    \* each of the following maps an invocation of the wrapped handler to its own
    wpc,       \* position in wrapped_func
    wchan,     \* index in channels of its `channel`, 0 before there is one
    wtoken,    \* local _token
    wkey,      \* local _key
    lookups,   \* number of keyring.get_password calls it made
    invoked,   \* number of times it entered the wrapped handler
    hargs,     \* positional arguments its handler received
    wreqs,     \* requests its handler sent, as sent and as they left the channel
    wres,      \* its outcome
    \* ---- signature_from_proto (SpecSig)
    pr_sig,    \* the ListFunctionsResponse being parsed
    sigres,    \* outcome of signature_from_proto
    sigpc,     \* "ready" before the call, "done" after
    \* ---- coroutines sharing the client (SpecCoros)
    running,   \* the coroutine the event loop is running, "none" between
    copc,      \* coroutine -> its position in the client method it called
    cokind,    \* coroutine -> the stub kind of the method it called
    comiss,    \* coroutine -> what `key not in self._stubs` evaluated to
    costub,    \* coroutine -> the stub its last stub access returned
    coops,     \* coroutine -> number of client methods it has called
    \* ---- async_to_sync and run_graph_block (SpecBridge)
    bcall,     \* calling thread -> its call of the blocking function
    bco,       \* calling thread -> the coroutine its call submitted
    executors, \* the ThreadPoolExecutors constructed so far
    bthreads,  \* the threads: the calling threads, then the pool workers
    loops,     \* the event loops asyncio.run has created
    bchans,    \* the channels: the calling client's, then those _run opens
    bclients   \* the clients: the calling client, then those _run constructs

clientVars == <<pc, op, args, sent, resp, res, stubs, nstubs, ncalls, deleted>>
workerVars == <<callback, keyring, channels, wpc, wchan, wtoken, wkey,
                lookups, invoked, hargs, wreqs, wres>>
sigVars    == <<pr_sig, sigres, sigpc>>
coroVars   == <<running, copc, cokind, comiss, costub, coops>>
bridgeVars == <<bcall, bco, executors, bthreads, loops, bchans, bclients>>
vars       == <<clientVars, workerVars, sigVars, coroVars, bridgeVars>>

(***************************************************************************)
(* Bounds of the model.                                                    *)
(***************************************************************************)
MaxCalls  == 2    \* client methods invoked in one behaviour
MaxInputs == 2    \* entries of py_inputs
MaxTasks  == 2    \* task entries in a list_tasks response
MaxInv    == 2    \* invocations of the wrapped handler in one behaviour
MaxReqs   == 1    \* requests a handler sends over its client
MaxEntries == 2   \* function entries, and alias entries, of a response
MaxOps    == 2    \* client methods one coroutine calls in one behaviour

(***************************************************************************)
(* Python values.  None and str are kept apart so that `is`, `or` and      *)
(* truthiness can be computed as Python computes them.                     *)
(***************************************************************************)
PyNone == [t |-> "NoneType", s |-> ""]

PyStr(s) == [t |-> "str", s |-> s]

\* bool(x) for None and str
Truthy(x) == IF x.t = "NoneType" THEN FALSE ELSE x.s # ""

\* `a or b`: a if a is truthy, else b
PyOr(a, b) == IF Truthy(a) THEN a ELSE b

\* `a is b` for None and str operands: None is a singleton and CPython keeps
\* one empty-string object, so on the operands list_tasks compares, identity
\* coincides with equality of type and content.
PyIs(a, b) == a.t = b.t /\ a.s = b.s

NoOutcome == [tag |-> "none"]

Return(v) == [tag |-> "return", value |-> v]

Raise(e) == [tag |-> "raise", exc |-> e]

(***************************************************************************)
(* Typed value model (tierkreis.core.values), as far as the client uses    *)
(* it: from_python, to_proto, from_proto.                                  *)
(***************************************************************************)
PyValues == { [py |-> "int",    v |-> 1],
              [py |-> "int",    v |-> 2],
              [py |-> "bool",   v |-> 1],
              [py |-> "object", v |-> 0] }

\* whether TierkreisValue.from_python(val) raises IncompatiblePyType
Incompatible(val) == val.py \notin {"int", "bool"}

\* TierkreisValue.from_python(val), for a compatible val
FromPython(val) ==
    IF val.py = "int" THEN [tk |-> "IntValue",  value |-> val.v]
                      ELSE [tk |-> "BoolValue", value |-> val.v]

\* TierkreisValue.to_proto()
ToProto(tv) ==
    IF tv.tk = "IntValue" THEN [oneof |-> "integer", payload |-> tv.value]
                          ELSE [oneof |-> "boolean", payload |-> tv.value]

\* TierkreisValue.from_proto(pv)
FromProto(pv) ==
    IF pv.oneof = "integer" THEN [tk |-> "IntValue",  value |-> pv.payload]
                            ELSE [tk |-> "BoolValue", value |-> pv.payload]

ProtoValues == { ToProto(FromPython(v)) : v \in {x \in PyValues : ~Incompatible(x)} }

\* StructValue(inputs).to_proto_dict()
ToProtoDict(inputs) == [k \in DOMAIN inputs |-> ToProto(inputs[k])]

\* StructValue.from_proto_dict(map).values
FromProtoDict(map) == [k \in DOMAIN map |-> FromProto(map[k])]


(***************************************************************************)
(* Messages of the Runtime service, as betterproto hands them to the       *)
(* client.  A oneof group is modelled by the name which_one_of returns     *)
(* ("" when no member is set) next to the members, unset members holding   *)
(* their defaults.                                                         *)
(***************************************************************************)
Graphs == {"g1", "g2"}

\* TierkreisGraph.to_proto()
GraphToProto(g) == [proto_graph |-> g]

InputKeys == {"angle", "n"}

TaskIds == {"t1", "t2"}

\* TaskHandle(task_id)
TaskHandle(id) == [task_id |-> id]

TypeErrorLists == {<<"e1">>, <<"e1", "e2">>}

RunTaskResponses ==
    { [result |-> "task_id", task_id |-> id, type_errors |-> <<>>] : id \in TaskIds }
    \cup
    { [result |-> "type_errors", task_id |-> "", type_errors |-> te] :
          te \in TypeErrorLists }
    \cup
    { [result |-> "", task_id |-> "", type_errors |-> <<>>] }

\* the result struct of a finished task: output name -> wire value
ResultMaps ==
    { [k \in {"result"} |-> pv] : pv \in ProtoValues }
    \cup
    { [k \in {"result", "aux"} |-> ToProto(FromPython([py |-> "int", v |-> 2]))] }

\* the members of Task.status with their payloads; status "" is no member set,
\* whose payload which_one_of gives as None
TaskStatuses ==
    { [status |-> "success", map |-> m, text |-> ""] : m \in ResultMaps }
    \cup
    { [status |-> "failure", map |-> <<>>, text |-> t] : t \in {"boom", ""} }
    \cup
    { [status |-> "deleted", map |-> <<>>, text |-> "gone"],
      [status |-> "",        map |-> <<>>, text |-> ""] }

AwaitTaskResponses == { [task |-> st] : st \in TaskStatuses }

\* what which_one_of(task, "status") may yield as the name for an entry of a
\* list_tasks response: a member name, "" when none is set; None is the
\* value list_tasks itself provides a branch for
StatusNames == {PyNone, PyStr(""), PyStr("success"), PyStr("failure")}

RECURSIVE TaskLists(_)
\* sequences of n task entries with distinct ids
TaskLists(n) ==
    IF n = 0 THEN {<<>>}
    ELSE { Append(l, [id |-> i, status |-> st]) :
             l \in TaskLists(n - 1), i \in TaskIds, st \in StatusNames }
         \ { l2 \in { Append(l, [id |-> i, status |-> st]) :
                        l \in TaskLists(n - 1), i \in TaskIds, st \in StatusNames } :
               \E a, b \in 1..Len(l2) : a # b /\ l2[a].id = l2[b].id }

ListTasksResponses == UNION { { [tasks |-> l] : l \in TaskLists(n) } : n \in 0..MaxTasks }

\* a stub call either delivers the decoded response or raises a transport error
Delivered(m) == [failed |-> FALSE, msg |-> m]

TransportFailure == [failed |-> TRUE, msg |-> [error |-> "StreamTerminatedError"]]

TransportError == [type |-> "TransportError"]

RECURSIVE InputDicts(_)
\* py_inputs: dicts of n entries, as the sequence of their items in iteration order
InputDicts(n) ==
    IF n = 0 THEN {<<>>}
    ELSE { Append(d, <<k, v>>) :
             d \in InputDicts(n - 1),
             k \in InputKeys,
             v \in PyValues }
         \ { d2 \in { Append(d, <<k, v>>) :
                        d \in InputDicts(n - 1), k \in InputKeys, v \in PyValues } :
               \E a, b \in 1..Len(d2) : a # b /\ d2[a][1] = d2[b][1] }

PyInputs == UNION { InputDicts(n) : n \in 0..MaxInputs }

(***************************************************************************)
(* RuntimeClient                                                           *)
(***************************************************************************)
StubKinds == {"signature", "runtime", "type"}

ClientChannel == "channel0"

NoStub == [kind |-> "", channel |-> "", serial |-> 0]

\* stub_t(self._channel): the serial tells stub objects apart
NewStub(key, serial) == [kind |-> key, channel |-> ClientChannel, serial |-> serial]

\* a _stub_gen that constructs a stub on every access
StubsAlwaysNew(key) == [stubs EXCEPT ![key] = NewStub(key, nstubs + 1)]

\* _stub_gen: self._stubs after the access
StubsAfter(key) ==
    IF stubs[key] = NoStub
    THEN [stubs EXCEPT ![key] = NewStub(key, nstubs + 1)]
    ELSE stubs

\* _stub_gen: whether the access constructs a stub
NStubsAfter(key) == IF stubs[key] = NoStub THEN nstubs + 1 ELSE nstubs

\* InputConversionError(key, val)
InputConversionError(key, val) ==
    [type |-> "InputConversionError", input_name |-> key, value |-> val]

RECURSIVE ConvertFrom(_, _, _)
\* a conversion loop that drops an inconvertible value instead of raising
ConvertInputsSkipping(py_inputs, i, inputs) ==
    IF i > Len(py_inputs) THEN [ok |-> TRUE, inputs |-> inputs]
    ELSE LET key == py_inputs[i][1]
             val == py_inputs[i][2]
         IN  IF Incompatible(val)
             THEN ConvertFrom(py_inputs, i + 1, inputs)
             ELSE ConvertFrom(py_inputs, i + 1,
                      [k \in DOMAIN inputs \cup {key} |->
                          IF k = key THEN FromPython(val) ELSE inputs[k]])

\* the loop of start_task over py_inputs.items(), from item i on, with the
\* inputs converted so far
ConvertFrom(py_inputs, i, inputs) ==
    IF i > Len(py_inputs) THEN [ok |-> TRUE, inputs |-> inputs]
    ELSE LET key == py_inputs[i][1]
             val == py_inputs[i][2]
         IN  IF Incompatible(val)
             THEN [ok |-> FALSE, exc |-> InputConversionError(key, val)]
             ELSE ConvertFrom(py_inputs, i + 1,
                      [k \in DOMAIN inputs \cup {key} |->
                          IF k = key THEN FromPython(val) ELSE inputs[k]])

\* the request start_task sends
RunTaskRequest(graph, inputs) ==
    [rpc |-> "run_task", stub |-> stubs'["runtime"],
     body |-> [graph |-> GraphToProto(graph), inputs |-> [map |-> ToProtoDict(inputs)]]]

\* TierkreisTypeErrors.from_proto(type_errors)
TierkreisTypeErrors(type_errors) ==
    [type |-> "TierkreisTypeErrors",
     errors |-> [i \in 1..Len(type_errors) |-> [type_error |-> type_errors[i]]]]

\* a start_task that builds a handle without looking at the discriminator
StartTaskHandleAny(reply) ==
    IF reply.failed THEN Raise(TransportError)
    ELSE Return(TaskHandle(reply.msg.task_id))

\* start_task after run_task has answered
StartTaskEnd(reply) ==
    IF reply.failed THEN Raise(TransportError)
    ELSE IF reply.msg.result = "task_id"
         THEN Return(TaskHandle(reply.msg.task_id))
         ELSE Raise(TierkreisTypeErrors(reply.msg.type_errors))

\* the label list_tasks stores for a status name
StatusLabel(status_name) ==
    IF PyIs(status_name, PyOr(PyNone, PyStr("")))
    THEN PyStr("running")
    ELSE status_name

RECURSIVE ListFrom(_, _, _)
\* the loop of list_tasks over decoded.tasks, from entry i on
ListFrom(tasks, i, result) ==
    IF i > Len(tasks) THEN result
    ELSE LET h == TaskHandle(tasks[i].id)
         IN  ListFrom(tasks, i + 1,
                 [k \in DOMAIN result \cup {h} |->
                     IF k = h THEN StatusLabel(tasks[i].status) ELSE result[k]])

\* list_tasks after the stub call has answered
ListTasksEnd(reply) ==
    IF reply.failed THEN Raise(TransportError)
    ELSE Return(ListFrom(reply.msg.tasks, 1, <<>>))

\* the second component of which_one_of(decoded.task, "status")
StatusValue(task) ==
    IF task.status = "success" THEN [kind |-> "StructValue", map |-> task.map]
    ELSE IF task.status = "" THEN [kind |-> "NoneType"]
    ELSE [kind |-> "str", text |-> task.text]

\* RuntimeError(f"Task execution failed with message:\n{status_value}"): the
\* message is its literal text followed by the interpolated status_value
TaskFailed(status_value) ==
    [type |-> "RuntimeError",
     message |-> [text |-> "Task execution failed with message:\n",
                  interpolated |-> status_value]]

\* the request await_task sends
AwaitTaskRequest(task) ==
    [rpc |-> "await_task", stub |-> stubs'["runtime"], body |-> [id |-> task.task_id]]

\* an await_task that raises on status failure only
AwaitTaskEndLenient(reply) ==
    IF reply.failed THEN Raise(TransportError)
    ELSE IF reply.msg.task.status = "failure"
         THEN Raise(TaskFailed(StatusValue(reply.msg.task)))
         ELSE Return(FromProtoDict(reply.msg.task.map))

\* await_task after the stub call has answered
AwaitTaskEnd(reply) ==
    IF reply.failed THEN Raise(TransportError)
    ELSE IF reply.msg.task.status # "success"
         THEN Raise(TaskFailed(StatusValue(reply.msg.task)))
         ELSE Return(FromProtoDict(StatusValue(reply.msg.task).map))

\* a run_graph that awaits a fixed handle rather than the one it was given
RunGraphStaleHandle(task) == TaskHandle("t1")

\* run_graph: the handle it passes to await_task

RunGraphHandle(task) == task

(***************************************************************************)
(* Spec: one caller, one client.  A call runs to its stub call in one      *)
(* action and from the answer to its end in another.                       *)
(***************************************************************************)
NoArgs == [graph |-> "", py_inputs |-> <<>>, task |-> TaskHandle("")]

Invs == 1..MaxInv

NoCallback == [known |-> FALSE, host |-> "", port |-> 0]

\* no invocation of the wrapped handler has started
NoInvocations ==
    /\ channels = <<>>
    /\ wpc = [i \in Invs |-> "idle"]
    /\ wchan = [i \in Invs |-> 0]
    /\ wtoken = [i \in Invs |-> PyNone]
    /\ wkey = [i \in Invs |-> PyNone]
    /\ lookups = [i \in Invs |-> 0]
    /\ invoked = [i \in Invs |-> 0]
    /\ hargs = [i \in Invs |-> <<>>]
    /\ wreqs = [i \in Invs |-> <<>>]
    /\ wres = [i \in Invs |-> NoOutcome]

IdleWorker ==
    /\ callback = NoCallback
    /\ keyring = [token |-> "absent", key |-> "absent"]
    /\ NoInvocations

IdleSig ==
    /\ pr_sig = [functions |-> <<>>, aliases |-> <<>>]
    /\ sigres = NoOutcome
    /\ sigpc = "ready"

IdleClient ==
    /\ pc = "idle"
    /\ op = "none"
    /\ args = NoArgs
    /\ sent = <<>>
    /\ resp = <<>>
    /\ res = NoOutcome
    /\ stubs = [k \in StubKinds |-> NoStub]
    /\ nstubs = 0
    /\ ncalls = 0
    /\ deleted = [id \in TaskIds |-> 0]

Coros == {"co1", "co2", "co3"}

IdleCoros ==
    /\ running = "none"
    /\ copc = [c \in Coros |-> "ready"]
    /\ cokind = [c \in Coros |-> ""]
    /\ comiss = [c \in Coros |-> FALSE]
    /\ costub = [c \in Coros |-> NoStub]
    /\ coops = [c \in Coros |-> 0]

\* the threads that call blocking functions
Callers == {1, 2}

\* the calling client `self` of run_graph_block and its channel
SelfClient == 1

SelfChannel == 1

NoCall == [pc |-> "idle", func |-> "", inputs |-> <<>>, exec |-> 0,
           fut |-> NoOutcome, res |-> NoOutcome]

NoCoroutine == [at |-> "none", thread |-> 0, loop |-> 0, chan |-> 0, client |-> 0,
                handle |-> TaskHandle(""), sent |-> <<>>]

\* before any blocking call: the calling threads, and a calling client whose
\* cache holds the given stub kinds, on its open channel
BridgeAt(kinds) ==
    /\ bcall = [t \in Callers |-> NoCall]
    /\ bco = [t \in Callers |-> NoCoroutine]
    /\ executors = <<>>
    /\ bthreads = [t \in Callers |-> [kind |-> "caller", executor |-> 0, alive |-> TRUE]]
    /\ loops = <<>>
    /\ bchans = <<[host |-> "runtime", port |-> 8080, open |-> TRUE, thread |-> 1]>>
    /\ bclients = <<[channel |-> SelfChannel, stubs |-> kinds]>>

IdleBridge == BridgeAt({})

Init == IdleClient /\ IdleWorker /\ IdleSig /\ IdleCoros /\ IdleBridge

\* entering a client method
Enter(name, a) ==
    /\ pc = "idle"
    /\ ncalls < MaxCalls
    /\ ncalls' = ncalls + 1
    /\ op' = name
    /\ args' = a
    /\ resp' = <<>>

\* the body of start_task up to its stub call
StartTaskBegin(graph, py_inputs) ==
    LET c == ConvertFrom(py_inputs, 1, <<>>)
    IN  IF ~c.ok
        THEN /\ res' = Raise(c.exc)
             /\ pc' = "idle"
             /\ sent' = <<>>
             /\ UNCHANGED <<stubs, nstubs>>
        ELSE /\ stubs' = StubsAfter("runtime")
             /\ nstubs' = NStubsAfter("runtime")
             /\ sent' = <<RunTaskRequest(graph, c.inputs)>>
             /\ res' = NoOutcome
             /\ pc' = "run_task"

\* the body of await_task up to its stub call
AwaitTaskBegin(task, sofar) ==
    /\ stubs' = StubsAfter("runtime")
    /\ nstubs' = NStubsAfter("runtime")
    /\ sent' = Append(sofar, AwaitTaskRequest(task))
    /\ res' = NoOutcome
    /\ pc' = "await_task"

start_task ==
    /\ \E g \in Graphs, i \in PyInputs :
          /\ Enter("start_task", [NoArgs EXCEPT !.graph = g, !.py_inputs = i])
          /\ StartTaskBegin(g, i)
    /\ UNCHANGED <<deleted, workerVars, sigVars, coroVars, bridgeVars>>

run_graph ==
    /\ \E g \in Graphs, i \in PyInputs :
          /\ Enter("run_graph", [NoArgs EXCEPT !.graph = g, !.py_inputs = i])
          /\ StartTaskBegin(g, i)
    /\ UNCHANGED <<deleted, workerVars, sigVars, coroVars, bridgeVars>>

await_task ==
    /\ \E id \in TaskIds :
          /\ Enter("await_task", [NoArgs EXCEPT !.task = TaskHandle(id)])
          /\ AwaitTaskBegin(TaskHandle(id), <<>>)
    /\ UNCHANGED <<deleted, workerVars, sigVars, coroVars, bridgeVars>>

list_tasks ==
    /\ Enter("list_tasks", NoArgs)
    /\ stubs' = StubsAfter("runtime")
    /\ nstubs' = NStubsAfter("runtime")
    /\ sent' = <<[rpc |-> "list_tasks", stub |-> stubs'["runtime"], body |-> <<>>]>>
    /\ res' = NoOutcome
    /\ pc' = "list_tasks"
    /\ UNCHANGED <<deleted, workerVars, sigVars, coroVars, bridgeVars>>

\* run_task answers: start_task finishes; run_graph goes on to await_task
run_task_answered ==
    /\ pc = "run_task"
    /\ \E reply \in {Delivered(m) : m \in RunTaskResponses} \cup {TransportFailure} :
          LET out == StartTaskEnd(reply)
          IN  /\ resp' = Append(resp, reply)
              /\ IF op = "run_graph" /\ out.tag = "return"
                 THEN AwaitTaskBegin(RunGraphHandle(out.value), sent)
                 ELSE /\ res' = out
                      /\ pc' = "idle"
                      /\ UNCHANGED <<sent, stubs, nstubs>>
    /\ UNCHANGED <<op, args, ncalls, deleted, workerVars, sigVars, coroVars, bridgeVars>>

\* await_task answers: await_task, or run_graph, finishes
await_task_answered ==
    /\ pc = "await_task"
    /\ \E reply \in {Delivered(m) : m \in AwaitTaskResponses} \cup {TransportFailure} :
          /\ resp' = Append(resp, reply)
          /\ res' = AwaitTaskEnd(reply)
    /\ pc' = "idle"
    /\ UNCHANGED <<op, args, sent, stubs, nstubs, ncalls, deleted, workerVars, sigVars, coroVars, bridgeVars>>

\* list_tasks answers
list_tasks_answered ==
    /\ pc = "list_tasks"
    /\ \E reply \in {Delivered(m) : m \in ListTasksResponses} \cup {TransportFailure} :
          /\ resp' = Append(resp, reply)
          /\ res' = ListTasksEnd(reply)
    /\ pc' = "idle"
    /\ UNCHANGED <<op, args, sent, stubs, nstubs, ncalls, deleted, workerVars, sigVars, coroVars, bridgeVars>>

(***************************************************************************)
(* Properties of the client, checked under Spec.                           *)
(***************************************************************************)
\* the items of a py_inputs mapping whose value has no typed-value conversion
BadItems(py_inputs) ==
    { i \in 1..Len(py_inputs) : py_inputs[i][2].py \notin {"int", "bool"} }

\* the run_task answer of the current call has been decoded
RunTaskDecoded == Len(resp) >= 1 /\ ~resp[1].failed

\* C1: a start_task call whose input mapping holds a value with no typed-value
\* conversion has raised InputConversionError carrying the key and value of
\* such an input, and has sent no request: in every state of that call the
\* sequence of requests it sent is empty.
C1_NoPartialSubmission ==
    (op = "start_task" /\ BadItems(args.py_inputs) # {}) =>
        /\ sent = <<>>
        /\ resp = <<>>
        /\ pc = "idle"
        /\ res.tag = "raise"
        /\ res.exc.type = "InputConversionError"
        /\ \E i \in BadItems(args.py_inputs) :
              /\ res.exc.input_name = args.py_inputs[i][1]
              /\ res.exc.value = args.py_inputs[i][2]

\* a start_task call has raised on a mapping whose first item converts and
\* whose second does not
C1_Witness ==
    /\ op = "start_task"
    /\ Len(args.py_inputs) = 2
    /\ BadItems(args.py_inputs) = {2}
    /\ res.tag = "raise"

\* C2: once run_task has answered a start_task call, the call has returned a
\* handle exactly when the response's result discriminator is task_id, the
\* handle carrying the server's task id; for type_errors and for no member
\* set it has raised TierkreisTypeErrors built from the response's
\* type_errors, so the call never ends without a handle or an exception.
C2_HandleOnlyForTaskId ==
    (op = "start_task" /\ RunTaskDecoded) =>
        LET m == resp[1].msg
        IN  /\ pc = "idle"
            /\ res.tag \in {"return", "raise"}
            /\ (res.tag = "return") <=> (m.result = "task_id")
            /\ res.tag = "return" =>
                  /\ res.value = [task_id |-> m.task_id]
                  /\ res.value.task_id \in TaskIds
            /\ res.tag = "raise" =>
                  /\ res.exc.type = "TierkreisTypeErrors"
                  /\ Len(res.exc.errors) = Len(m.type_errors)
                  /\ \A i \in 1..Len(m.type_errors) :
                        res.exc.errors[i].type_error = m.type_errors[i]

\* run_task answered a start_task call with no member of result set, and
\* the call raised
C2_Witness ==
    /\ op = "start_task"
    /\ RunTaskDecoded
    /\ resp[1].msg.result = ""
    /\ res.tag = "raise"

C4_AwaitRaisesUnlessSuccess ==
    (op = "await_task" /\ Len(resp) = 1 /\ ~resp[1].failed) =>
        LET t == resp[1].msg.task
            payload == IF t.status = "" THEN [kind |-> "NoneType"]
                       ELSE [kind |-> "str", text |-> t.text]
        IN  /\ pc = "idle"
            /\ t.status # "success" =>
                  /\ res.tag = "raise"
                  /\ res.exc.type = "RuntimeError"
                  /\ res.exc.message.interpolated = payload
            /\ t.status = "success" =>
                  /\ res.tag = "return"
                  /\ DOMAIN res.value = DOMAIN t.map
                  /\ \A k \in DOMAIN t.map :
                        /\ res.value[k].value = t.map[k].payload
                        /\ res.value[k].tk =
                              IF t.map[k].oneof = "integer" THEN "IntValue"
                                                            ELSE "BoolValue"

\* an await_task call raised on a task the server reports as deleted
C4_Witness ==
    /\ op = "await_task"
    /\ Len(resp) = 1
    /\ ~resp[1].failed
    /\ resp[1].msg.task.status = "deleted"
    /\ res.tag = "raise"

\* C8: in a run_graph call the requests are run_task, then at most one
\* await_task; await_task is sent only after run_task answered with a task
\* id and names exactly that id; when start_task fails (input conversion,
\* type errors, transport) no await_task is sent and the call ends with
\* start_task's failure; once await_task has answered, the call ends with
\* await_task's outcome.
C8_RunGraphIsStartThenAwait ==
    (op = "run_graph") =>
        /\ Len(sent) <= 2
        /\ Len(sent) >= 1 => sent[1].rpc = "run_task"
        /\ Len(sent) = 2 =>
              /\ sent[2].rpc = "await_task"
              /\ RunTaskDecoded
              /\ resp[1].msg.result = "task_id"
              /\ sent[2].body.id = resp[1].msg.task_id
        /\ BadItems(args.py_inputs) # {} =>
              /\ sent = <<>>
              /\ res.tag = "raise"
              /\ res.exc.type = "InputConversionError"
        /\ (Len(resp) >= 1 /\ (resp[1].failed \/ resp[1].msg.result # "task_id")) =>
              /\ Len(sent) = 1
              /\ Len(resp) = 1
              /\ pc = "idle"
              /\ res = StartTaskEnd(resp[1])
              /\ res.tag = "raise"
        /\ Len(resp) = 2 =>
              /\ pc = "idle"
              /\ res = AwaitTaskEnd(resp[2])
        /\ Len(resp) <= 2

\* a run_graph call went through both stages, the second one failing
C8_Witness ==
    /\ op = "run_graph"
    /\ Len(sent) = 2
    /\ Len(resp) = 2
    /\ resp[1].msg.task_id = "t2"
    /\ res.tag = "raise"

(***************************************************************************)
(* with_runtime_client.  Each invocation of wrapped_func is a coroutine of *)
(* its own; invocations interleave.  A Channel is a record of its address, *)
(* whether it is open, and the SendRequest listeners registered on it.     *)
(***************************************************************************)
CallbackAddresses == { [known |-> TRUE, host |-> "runtime", port |-> 8080] }

\* what keyring.get_password does for a name: return None, return the
\* secret, or raise (no usable backend, locked store)
KeyringStates == {"absent", "present", "error"}

Secret(name) == IF name = "token" THEN "tok" ELSE "k3y"

\* keyring.get_password(_KEYRING_SERVICE, name), when it returns
GetPassword(name) == IF keyring[name] = "present" THEN PyStr(Secret(name)) ELSE PyNone

KeyringError == [type |-> "KeyringError"]

ListenError == [type |-> "ListenError"]

HandlerError == [type |-> "HandlerError"]

\* positional arguments a caller passes to the wrapped function
CallerArgs == {<<[arg |-> "a1"]>>}

\* metadata of a request as the handler's client hands it to the channel
RequestMetadata == { [deadline |-> "none"], [deadline |-> "5s"] }

\* Channel(*worker.callback)
NewChannel(address) ==
    [host |-> address.host, port |-> address.port, open |-> TRUE, hooks |-> <<>>]

\* _inject_auth as generated by _gen_auth_injector(login, pwd): the metadata
\* of the event after the listener ran
InjectAuth(hook, metadata) ==
    [k \in DOMAIN metadata \cup {"token", "key"} |->
        IF k = "token" THEN hook.login
        ELSE IF k = "key" THEN hook.pwd
        ELSE metadata[k]]

RECURSIVE Dispatch(_, _, _)
\* the SendRequest event of a request passing the listeners of its channel,
\* from listener i on
Dispatch(hooks, i, metadata) ==
    IF i > Len(hooks) THEN metadata
    ELSE Dispatch(hooks, i + 1, InjectAuth(hooks[i], metadata))

\* a wrapped_func without the callback check
CallbackNeverMissing == FALSE

\* `worker.callback is None`

CallbackMissing == ~callback.known

\* a credential test that is content with one secret
EitherSecret(token, key) == ~(PyIs(token, PyNone) /\ PyIs(key, PyNone))

\* `not (_token is None or _key is None)`

BothSecrets(token, key) == ~(PyIs(token, PyNone) \/ PyIs(key, PyNone))

\* a channel closed after the block only when the block returns
CloseOnReturnOnly(chs, c, outcome) ==
    IF outcome.tag = "return" THEN [chs EXCEPT ![c].open = FALSE] ELSE chs

\* leaving `async with Channel(...) as channel` with the given outcome:
\* Channel.__aexit__ closes the channel

ExitChannel(chs, c, outcome) == [chs EXCEPT ![c].open = FALSE]

\* an `async with` that binds the first channel ever opened
FirstChannel(chs) == 1

\* the channel `async with Channel(...) as channel` binds: the one the
\* statement has just constructed
BoundChannel(chs) == Len(chs)

\* a wrapper that passes the client after the caller's arguments
HandlerArgsClientLast(client, a) == a \o <<client>>

\* args = (RuntimeClient(channel),) + args
HandlerArgs(client, a) == <<client>> \o a

\* RuntimeClient(channel)
ClientOf(channel) == [client_of |-> channel]

\* wrapped_func ends with the given outcome
Finish(i, outcome) ==
    /\ wres' = [wres EXCEPT ![i] = outcome]
    /\ wpc' = [wpc EXCEPT ![i] = "done"]

\* wrapped_func is called: the callback check, then the channel
wrapped_func(i) ==
    /\ wpc[i] = "idle"
    /\ \E a \in CallerArgs :
          /\ hargs' = [hargs EXCEPT ![i] = a]
          /\ IF CallbackMissing
             THEN /\ Finish(i, Raise([type |-> "RuntimeError",
                                       message |-> "Callback address has not been extracted from request."]))
                  /\ UNCHANGED <<channels, wchan>>
             ELSE /\ channels' = Append(channels, NewChannel(callback))
                  /\ wchan' = [wchan EXCEPT ![i] = BoundChannel(channels')]
                  /\ wpc' = [wpc EXCEPT ![i] = "opened"]
                  /\ UNCHANGED wres
    /\ UNCHANGED <<callback, keyring, wtoken, wkey, lookups, invoked, wreqs,
                   clientVars, sigVars, coroVars, bridgeVars>>

\* _token = keyring.get_password(_KEYRING_SERVICE, "token")
get_token(i) ==
    /\ wpc[i] = "opened"
    /\ lookups' = [lookups EXCEPT ![i] = @ + 1]
    /\ IF keyring["token"] = "error"
       THEN /\ Finish(i, Raise(KeyringError))
            /\ channels' = ExitChannel(channels, wchan[i], Raise(KeyringError))
            /\ UNCHANGED wtoken
       ELSE /\ wtoken' = [wtoken EXCEPT ![i] = GetPassword("token")]
            /\ wpc' = [wpc EXCEPT ![i] = "token"]
            /\ UNCHANGED <<wres, channels>>
    /\ UNCHANGED <<callback, keyring, wchan, wkey, invoked, hargs, wreqs,
                   clientVars, sigVars, coroVars, bridgeVars>>

\* _key = keyring.get_password(_KEYRING_SERVICE, "key")
get_key(i) ==
    /\ wpc[i] = "token"
    /\ lookups' = [lookups EXCEPT ![i] = @ + 1]
    /\ IF keyring["key"] = "error"
       THEN /\ Finish(i, Raise(KeyringError))
            /\ channels' = ExitChannel(channels, wchan[i], Raise(KeyringError))
            /\ UNCHANGED wkey
       ELSE /\ wkey' = [wkey EXCEPT ![i] = GetPassword("key")]
            /\ wpc' = [wpc EXCEPT ![i] = "key"]
            /\ UNCHANGED <<wres, channels>>
    /\ UNCHANGED <<callback, keyring, wchan, wtoken, invoked, hargs, wreqs,
                   clientVars, sigVars, coroVars, bridgeVars>>

\* the `if` around listen(channel, SendRequest, _gen_auth_injector(_token, _key));
\* listen itself may raise
register_hook(i) ==
    /\ wpc[i] = "key"
    /\ IF BothSecrets(wtoken[i], wkey[i])
       THEN \E raises \in BOOLEAN :
               IF raises
               THEN /\ Finish(i, Raise(ListenError))
                    /\ channels' = ExitChannel(channels, wchan[i], Raise(ListenError))
               ELSE /\ channels' = [channels EXCEPT ![wchan[i]].hooks =
                                       Append(@, [login |-> wtoken[i].s, pwd |-> wkey[i].s])]
                    /\ wpc' = [wpc EXCEPT ![i] = "ready"]
                    /\ UNCHANGED wres
       ELSE /\ wpc' = [wpc EXCEPT ![i] = "ready"]
            /\ UNCHANGED <<wres, channels>>
    /\ UNCHANGED <<callback, keyring, wchan, wtoken, wkey, lookups, invoked, hargs,
                   wreqs, clientVars, sigVars, coroVars, bridgeVars>>

\* args = (RuntimeClient(channel),) + args; func(*args, **kwargs) is entered
invoke_handler(i) ==
    /\ wpc[i] = "ready"
    /\ hargs' = [hargs EXCEPT ![i] = HandlerArgs(ClientOf(wchan[i]), @)]
    /\ invoked' = [invoked EXCEPT ![i] = @ + 1]
    /\ wpc' = [wpc EXCEPT ![i] = "handler"]
    /\ UNCHANGED <<callback, keyring, channels, wchan, wtoken, wkey, lookups, wreqs,
                   wres, clientVars, sigVars, coroVars, bridgeVars>>

\* the handler sends a request through the client it was given
handler_request(i) ==
    /\ wpc[i] = "handler"
    /\ Len(wreqs[i]) < MaxReqs
    /\ \E md \in RequestMetadata :
          wreqs' = [wreqs EXCEPT ![i] =
                       Append(@, [channel |-> hargs[i][1].client_of,
                                  given |-> md,
                                  metadata |-> Dispatch(channels[hargs[i][1].client_of].hooks, 1, md)])]
    /\ UNCHANGED <<callback, keyring, channels, wpc, wchan, wtoken, wkey, lookups,
                   invoked, hargs, wres, clientVars, sigVars, coroVars, bridgeVars>>

\* what the handler may end with
HandlerOutcomes == {Return([result |-> "handled"]), Raise(HandlerError)}

\* the handler returns or raises, and the `async with` block is left
handler_done(i) ==
    /\ wpc[i] = "handler"
    /\ \E outcome \in HandlerOutcomes :
          /\ Finish(i, outcome)
          /\ channels' = ExitChannel(channels, wchan[i], outcome)
    /\ UNCHANGED <<callback, keyring, wchan, wtoken, wkey, lookups, invoked, hargs,
                   wreqs, clientVars, sigVars, coroVars, bridgeVars>>

InitWorker ==
    /\ IdleClient
    /\ IdleSig
    /\ IdleCoros
    /\ IdleBridge
    /\ callback \in {NoCallback} \cup CallbackAddresses
    /\ keyring \in [{"token", "key"} -> KeyringStates]
    /\ NoInvocations

NextWorker ==
    \E i \in Invs :
        \/ wrapped_func(i)
        \/ get_token(i)
        \/ get_key(i)
        \/ register_hook(i)
        \/ invoke_handler(i)
        \/ handler_request(i)
        \/ handler_done(i)

SpecWorker == InitWorker /\ [][NextWorker]_vars

(***************************************************************************)
(* Properties of with_runtime_client, checked under SpecWorker.            *)
(***************************************************************************)
\* C5: while the worker's callback address is unknown, no call of a wrapped
\* handler opens a channel, looks up a credential or enters the handler, and
\* every such call that has ended has raised the precondition error.
C5_NoChannelWithoutCallback ==
    ~callback.known =>
        /\ channels = <<>>
        /\ \A i \in Invs :
              /\ lookups[i] = 0
              /\ invoked[i] = 0
              /\ wreqs[i] = <<>>
              /\ wpc[i] \in {"idle", "done"}
              /\ wpc[i] = "done" =>
                    /\ wres[i].tag = "raise"
                    /\ wres[i].exc.type = "RuntimeError"

\* a wrapped call has ended while the callback address was unknown
C5_Witness ==
    /\ ~callback.known
    /\ \E i \in Invs : wpc[i] = "done" /\ wres[i].tag = "raise"

\* C6: a wrapped call that has ended, by the handler returning, the handler
\* raising, or a credential lookup or the hook registration raising, has
\* left its channel closed; a channel is open only while the call that
\* opened it is still running.
C6_ChannelClosedOnEveryExit ==
    /\ \A i \in Invs :
          (wpc[i] = "done" /\ wchan[i] # 0) => ~channels[wchan[i]].open
    /\ \A c \in 1..Len(channels) :
          channels[c].open =>
              \E i \in Invs : wchan[i] = c /\ wpc[i] \notin {"idle", "done"}

\* one call ended by a raising handler, another by a failed authenticator
\* setup, after each had opened a channel
C6_Witness ==
    \E i, j \in Invs :
        /\ wpc[i] = "done" /\ wchan[i] # 0
        /\ invoked[i] = 1 /\ wres[i] = Raise(HandlerError)
        /\ wpc[j] = "done" /\ wchan[j] # 0
        /\ invoked[j] = 0 /\ wres[j].tag = "raise"

\* the store holds both secrets
StoreHasBoth == keyring["token"] = "present" /\ keyring["key"] = "present"

\* C7: when the handler of a wrapped call has been entered, a hook is
\* registered on the call's channel if and only if the store holds both the
\* token and the key; with both, every request the handler sent left with
\* metadata token = <token> and key = <key>; with either absent the call
\* raised no error of its own, the handler was entered all the same, and
\* its requests left with the metadata they were given.
C7_HookIffBothSecrets ==
    \A i \in Invs :
        /\ invoked[i] >= 1 =>
              LET ch == channels[wchan[i]]
              IN  /\ (Len(ch.hooks) >= 1) <=> StoreHasBoth
                  /\ Len(ch.hooks) <= 1
                  /\ \A r \in 1..Len(wreqs[i]) :
                        LET q == wreqs[i][r]
                        IN  IF StoreHasBoth
                            THEN /\ q.metadata["token"] = "tok"
                                 /\ q.metadata["key"] = "k3y"
                                 /\ \A k \in DOMAIN q.given : q.metadata[k] = q.given[k]
                            ELSE q.metadata = q.given
        /\ invoked[i] = 0 => wreqs[i] = <<>>
        /\ ( /\ callback.known
             /\ wpc[i] \in {"handler", "done"}
             /\ "error" \notin {keyring["token"], keyring["key"]}
             /\ ~StoreHasBoth ) =>
              /\ invoked[i] = 1
              /\ wpc[i] = "done" =>
                    wres[i] \in {Return([result |-> "handled"]), Raise(HandlerError)}

\* with both secrets in the store, a handler was entered and sent a request
\* that left with the two fields stamped on it
C7_Witness ==
    \E i \in Invs :
        /\ StoreHasBoth
        /\ invoked[i] = 1
        /\ Len(wreqs[i]) >= 1
        /\ wreqs[i][1].given = [deadline |-> "5s"]
        /\ wreqs[i][1].metadata # wreqs[i][1].given

\* with only the token in the store, a handler was entered and sent a request
C7_WitnessOneSecret ==
    \E i \in Invs :
        /\ keyring["token"] = "present"
        /\ keyring["key"] = "absent"
        /\ invoked[i] = 1
        /\ Len(wreqs[i]) >= 1

\* the steps of an invocation at which its channel is open
InBlock == {"opened", "token", "key", "ready", "handler"}

\* what an invocation ends with when a step before the handler raises
SetupErrors == {Raise(KeyringError), Raise(ListenError)}

\* the order of the steps, as far as invocation i has got: the channel is
\* opened before the lookups, both lookups are made and the hook settled
\* before the handler is entered with the client of the invocation's channel
\* in front of the caller's arguments, and the channel is open from then
\* until the invocation ends
StepsInOrder(i) ==
    /\ lookups[i] > 0 => wchan[i] # 0
    /\ invoked[i] > 0 =>
          /\ lookups[i] = 2
          /\ hargs[i][1] = ClientOf(wchan[i])
          /\ Tail(hargs[i]) \in CallerArgs
          /\ Len(channels[wchan[i]].hooks) = IF BothSecrets(wtoken[i], wkey[i]) THEN 1 ELSE 0
    /\ wchan[i] # 0 => (channels[wchan[i]].open <=> wpc[i] \in InBlock)

\* C16, as stated: with the callback address known, every call of the wrapped
\* handler opens one channel to it, enters the handler exactly once, and ends
\* with what the handler ended with, the steps in order.
C16_HandlerOnceInOrder ==
    \A i \in Invs :
        (callback.known /\ wpc[i] = "done") =>
            /\ wchan[i] # 0
            /\ channels[wchan[i]].host = callback.host
            /\ channels[wchan[i]].port = callback.port
            /\ invoked[i] = 1
            /\ wres[i] \in HandlerOutcomes
            /\ StepsInOrder(i)

\* C16, amended: with the callback address known, every call opens one
\* channel to it and enters the handler at most once; it enters it exactly
\* once and ends with what the handler ended with unless a credential lookup
\* or the hook registration raises, in which case the handler is never
\* entered and the call ends with that error; the steps are in order and the
\* channel is closed in either case.
C16_HandlerOnceUnlessSetupRaises ==
    \A i \in Invs :
        callback.known =>
            /\ Len(channels) = Cardinality({j \in Invs : wchan[j] # 0})
            /\ invoked[i] <= 1
            /\ StepsInOrder(i)
            /\ wpc[i] = "done" =>
                  /\ wchan[i] # 0
                  /\ channels[wchan[i]].host = callback.host
                  /\ channels[wchan[i]].port = callback.port
                  /\ IF wres[i] \in SetupErrors
                     THEN invoked[i] = 0
                     ELSE invoked[i] = 1 /\ wres[i] \in HandlerOutcomes

\* a call has gone through every step and returned the handler's result
C16_Witness ==
    \E i \in Invs :
        /\ callback.known /\ wpc[i] = "done"
        /\ invoked[i] = 1
        /\ lookups[i] = 2
        /\ wres[i] = Return([result |-> "handled"])
        /\ ~channels[wchan[i]].open

\* a call whose credential lookup raised: the handler was never entered
C16_WitnessSetupRaised ==
    \E i \in Invs :
        /\ callback.known /\ wpc[i] = "done"
        /\ invoked[i] = 0
        /\ wres[i] = Raise(KeyringError)

\* the invocations that are between opening and closing their channel
Inside == { i \in Invs : wpc[i] \in InBlock }

\* C19: invocations never share a channel or a client: each has a channel of
\* its own, its client and its requests use that channel, a channel carries
\* at most the one hook of its invocation, as many channels are open as
\* invocations are between open and close, and a channel is closed only by
\* the step that ends its own invocation.
C19_InvocationsShareNothing ==
    /\ [](/\ \A i, j \in Invs : (i # j /\ wchan[i] # 0) => wchan[i] # wchan[j]
          /\ \A i \in Inside : wchan[i] # 0 /\ channels[wchan[i]].open
          /\ Cardinality({c \in 1..Len(channels) : channels[c].open}) = Cardinality(Inside)
          /\ \A c \in 1..Len(channels) : Len(channels[c].hooks) <= 1
          /\ \A i \in Invs :
                /\ invoked[i] > 0 => hargs[i][1] = ClientOf(wchan[i])
                /\ \A k \in 1..Len(wreqs[i]) : wreqs[i][k].channel = wchan[i])
    /\ [][\A c \in 1..Len(channels) :
             /\ (channels[c].open /\ ~channels'[c].open) =>
                    \E i \in Invs : wchan[i] = c /\ wpc[i] \in InBlock /\ wpc'[i] = "done"
             /\ channels'[c].hooks # channels[c].hooks =>
                    \E i \in Invs : wchan[i] = c /\ wpc[i] = "key" /\ wpc'[i] = "ready"]_vars

\* two invocations are inside their blocks at once, each with its own open
\* channel, and one of them has been handed its client
C19_Witness ==
    \E i, j \in Invs :
        /\ i # j
        /\ wpc[i] = "handler" /\ wpc[j] \in InBlock
        /\ wchan[i] # wchan[j]
        /\ channels[wchan[i]].open /\ channels[wchan[j]].open

(***************************************************************************)
(* signature_from_proto.  A name is the sequence of its characters, so     *)
(* that str.split is computed rather than assumed.  The functions and the  *)
(* aliases of a ListFunctionsResponse are dicts: sequences of items with   *)
(* distinct keys, in iteration order.                                      *)
(***************************************************************************)
\* fully qualified names: "q/h", "q/x", "q/A", "b/h" and the nested "q/g/h"
QualifiedNames ==
    { <<"q", "/", "h">>, <<"q", "/", "x">>, <<"q", "/", "A">>,
      <<"b", "/", "h">>, <<"q", "/", "g", "/", "h">> }

RECURSIVE NameLists(_)
\* the key sequences of dicts of n entries
NameLists(n) ==
    IF n = 0 THEN {<<>>}
    ELSE { Append(l, x) : l \in NameLists(n - 1), x \in QualifiedNames }
         \ { l2 \in { Append(l, x) : l \in NameLists(n - 1), x \in QualifiedNames } :
               \E a, b \in 1..Len(l2) : a # b /\ l2[a] = l2[b] }

NameDicts == UNION { NameLists(n) : n \in 0..MaxEntries }

\* the value stored under a name of pr_sig.functions, and of pr_sig.aliases
FunctionEntry(name) == [proto |-> "FunctionDeclaration", name |-> name]

AliasEntry(name) == [proto |-> "TypeScheme", name |-> name]

ListFunctionsResponses ==
    { [functions |-> [i \in 1..Len(f) |-> <<f[i], FunctionEntry(f[i])>>],
       aliases   |-> [i \in 1..Len(a) |-> <<a[i], AliasEntry(a[i])>>]] :
          f \in NameDicts, a \in NameDicts }

\* TierkreisFunction.from_proto(entry)
FunctionFromProto(entry) == [tk |-> "TierkreisFunction", of |-> entry.name]

\* TypeScheme.from_proto(type_proto)
TypeSchemeFromProto(type_proto) == [tk |-> "TypeScheme", of |-> type_proto.name]

\* the maxsplit argument of name.split("/", 2)
MaxSplit == 2

\* positions of the separator in a name
SepPositions(name) == { i \in 1..Len(name) : name[i] = "/" }

RECURSIVE Split(_, _)
\* str.split("/", maxsplit): cut at the first separator, at most maxsplit times
Split(name, maxsplit) ==
    IF maxsplit = 0 \/ SepPositions(name) = {} THEN <<name>>
    ELSE LET p == CHOOSE i \in SepPositions(name) :
                      \A j \in SepPositions(name) : i <= j
         IN  <<SubSeq(name, 1, p - 1)>>
             \o Split(SubSeq(name, p + 1, Len(name)), maxsplit - 1)

\* `namespace, fname = name.split("/", 2)`: the unpacking raises ValueError
\* unless the split gives exactly two parts
Unpack(name) ==
    LET parts == Split(name, MaxSplit)
    IN  IF Len(parts) = 2
        THEN [ok |-> TRUE, namespace |-> parts[1], short |-> parts[2]]
        ELSE [ok |-> FALSE, namespace |-> <<>>, short |-> <<>>]

\* NamespaceDefs(functions, aliases)
NamespaceDefs(functions, aliases) == [functions |-> functions, aliases |-> aliases]

\* d[k] = v on a dict d
Put(d, k, v) == [x \in DOMAIN d \cup {k} |-> IF x = k THEN v ELSE d[x]]

RECURSIVE FunctionsFrom(_, _, _)
\* the first loop of signature_from_proto, from item i of pr_sig.functions on
FunctionsFrom(items, i, namespaces) ==
    IF i > Len(items) THEN [ok |-> TRUE, namespaces |-> namespaces]
    ELSE LET u == Unpack(items[i][1])
             func == FunctionFromProto(items[i][2])
         IN  IF ~u.ok THEN [ok |-> FALSE, namespaces |-> namespaces]
             ELSE IF u.namespace \in DOMAIN namespaces
             THEN FunctionsFrom(items, i + 1,
                      [namespaces EXCEPT ![u.namespace].functions = Put(@, u.short, func)])
             ELSE FunctionsFrom(items, i + 1,
                      Put(namespaces, u.namespace,
                          NamespaceDefs(Put(<<>>, u.short, func), <<>>)))

RECURSIVE AliasesFrom(_, _, _)
\* the second loop of signature_from_proto, from item i of pr_sig.aliases on
AliasesFrom(items, i, namespaces) ==
    IF i > Len(items) THEN [ok |-> TRUE, namespaces |-> namespaces]
    ELSE LET u == Unpack(items[i][1])
             type_ == TypeSchemeFromProto(items[i][2])
         IN  IF ~u.ok THEN [ok |-> FALSE, namespaces |-> namespaces]
             ELSE IF u.namespace \in DOMAIN namespaces
             THEN AliasesFrom(items, i + 1,
                      [namespaces EXCEPT ![u.namespace].aliases = Put(@, u.short, type_)])
             ELSE AliasesFrom(items, i + 1,
                      Put(namespaces, u.namespace,
                          NamespaceDefs(<<>>, Put(<<>>, u.short, type_))))

ValueError == [type |-> "ValueError"]

\* signature_from_proto(sig): the registry it returns, or the error it raises
SignatureFromProto(sig) ==
    LET fs == FunctionsFrom(sig.functions, 1, <<>>)
    IN  IF ~fs.ok THEN Raise(ValueError)
        ELSE LET als == AliasesFrom(sig.aliases, 1, fs.namespaces)
             IN  IF ~als.ok THEN Raise(ValueError)
                 ELSE Return(als.namespaces)

signature_from_proto ==
    /\ sigpc = "ready"
    /\ sigres' = SignatureFromProto(pr_sig)
    /\ sigpc' = "done"
    /\ UNCHANGED <<pr_sig, clientVars, workerVars, coroVars, bridgeVars>>

InitSig ==
    /\ IdleClient
    /\ IdleWorker
    /\ IdleCoros
    /\ IdleBridge
    /\ pr_sig \in ListFunctionsResponses
    /\ sigres = NoOutcome
    /\ sigpc = "ready"

NextSig == signature_from_proto

SpecSig == InitSig /\ [][NextSig]_vars

(***************************************************************************)
(* Properties of signature_from_proto, checked under SpecSig.              *)
(***************************************************************************)
\* position of the first "/" of a fully qualified name
FirstSlash(name) ==
    CHOOSE i \in 1..Len(name) : name[i] = "/" /\ \A j \in 1..(i - 1) : name[j] # "/"

\* the text before the first "/", and everything after it
PrefixOf(name) == SubSeq(name, 1, FirstSlash(name) - 1)

RestOf(name) == SubSeq(name, FirstSlash(name) + 1, Len(name))

\* the keys of a dict given as its item sequence
Keys(items) == { items[i][1] : i \in 1..Len(items) }

\* a sequence back to front
Reversed(q) == [i \in 1..Len(q) |-> q[Len(q) + 1 - i]]

\* C9: parsing merges by namespace: the registry has exactly one record per
\* distinct namespace prefix among the function and alias names, the record
\* holding exactly the functions and exactly the aliases of that namespace,
\* whichever kind of entry introduced it; and the registry is the same when
\* the entries arrive in the opposite order.
C9_MergeByNamespace ==
    sigpc = "done" =>
        /\ sigres.tag = "return"
        /\ DOMAIN sigres.value =
              { PrefixOf(n) : n \in Keys(pr_sig.functions) \cup Keys(pr_sig.aliases) }
        /\ \A ns \in DOMAIN sigres.value :
              /\ DOMAIN sigres.value[ns].functions =
                    { RestOf(n) : n \in { m \in Keys(pr_sig.functions) : PrefixOf(m) = ns } }
              /\ DOMAIN sigres.value[ns].aliases =
                    { RestOf(n) : n \in { m \in Keys(pr_sig.aliases) : PrefixOf(m) = ns } }
        /\ sigres = SignatureFromProto([functions |-> Reversed(pr_sig.functions),
                                        aliases |-> Reversed(pr_sig.aliases)])

\* C10: parsing splits every function and alias name on its first "/" only:
\* the name is filed under the text before the first "/" as namespace and
\* everything after it as short name, further "/" included, and parsing
\* raises no error.
C10_SplitOnFirstSlash ==
    sigpc = "done" =>
        /\ sigres.tag = "return"
        /\ \A i \in 1..Len(pr_sig.functions) :
              LET n == pr_sig.functions[i][1]
              IN  /\ PrefixOf(n) \in DOMAIN sigres.value
                  /\ RestOf(n) \in DOMAIN sigres.value[PrefixOf(n)].functions
                  /\ sigres.value[PrefixOf(n)].functions[RestOf(n)].of = n
        /\ \A i \in 1..Len(pr_sig.aliases) :
              LET n == pr_sig.aliases[i][1]
              IN  /\ PrefixOf(n) \in DOMAIN sigres.value
                  /\ RestOf(n) \in DOMAIN sigres.value[PrefixOf(n)].aliases
                  /\ sigres.value[PrefixOf(n)].aliases[RestOf(n)].of = n

\* every name of the response holds exactly one "/"
SimpleNames ==
    \A n \in Keys(pr_sig.functions) \cup Keys(pr_sig.aliases) :
        Cardinality(SepPositions(n)) = 1

\* what the code does: on names with exactly one "/" the registry is merged
\* by namespace, independently of order; a name with a second "/" makes the
\* call raise ValueError
SplitAsCoded ==
    sigpc = "done" =>
        IF SimpleNames
        THEN /\ sigres.tag = "return"
             /\ DOMAIN sigres.value =
                   { PrefixOf(n) : n \in Keys(pr_sig.functions) \cup Keys(pr_sig.aliases) }
             /\ \A ns \in DOMAIN sigres.value :
                   /\ DOMAIN sigres.value[ns].functions =
                         { RestOf(n) : n \in { m \in Keys(pr_sig.functions) : PrefixOf(m) = ns } }
                   /\ DOMAIN sigres.value[ns].aliases =
                         { RestOf(n) : n \in { m \in Keys(pr_sig.aliases) : PrefixOf(m) = ns } }
             /\ sigres = SignatureFromProto([functions |-> Reversed(pr_sig.functions),
                                             aliases |-> Reversed(pr_sig.aliases)])
        ELSE sigres = Raise(ValueError)

(***************************************************************************)
(* The remaining RuntimeClient methods: get_signature, delete_task and     *)
(* type_check_graph.                                                       *)
(***************************************************************************)
\* list_functions responses the Signature service answers get_signature with
SignatureReplies ==
    { r \in ListFunctionsResponses : Len(r.functions) + Len(r.aliases) <= 1 }

\* a get_signature that answers a failed call with an empty registry
GetSignatureEndEmpty(reply) ==
    IF reply.failed THEN Return(<<>>)
    ELSE SignatureFromProto(reply.msg)

\* get_signature after list_functions has answered
GetSignatureEnd(reply) ==
    IF reply.failed THEN Raise(TransportError)
    ELSE SignatureFromProto(reply.msg)

\* the decoded response of delete_task; the client reads none of its content
DeleteTaskResponses ==
    { [proto |-> "DeleteTaskResponse", content |-> c] : c \in {"", "x"} }

\* the request delete_task sends
DeleteTaskRequest(task) ==
    [rpc |-> "delete_task", stub |-> stubs'["runtime"], body |-> [id |-> task.task_id]]

\* a delete_task that hands the response back to its caller
DeleteTaskEndResponse(reply) ==
    IF reply.failed THEN Raise(TransportError)
    ELSE Return(reply.msg)

\* delete_task after the stub call has answered: the method has no return
\* statement
DeleteTaskEnd(reply) ==
    IF reply.failed THEN Raise(TransportError)
    ELSE Return(PyNone)

\* TierkreisValue.from_python(graph).to_proto(): a Value whose graph member is set
GraphValue(graph) == [graph |-> GraphToProto(graph)]

\* TierkreisValue.from_proto(value).to_python(TierkreisGraph)
GraphFromValue(value) == value.graph.proto_graph

\* the request type_check_graph sends
InferTypeRequest(graph) ==
    [rpc |-> "infer_type", stub |-> stubs'["type"], body |-> [value |-> GraphValue(graph)]]

\* InferTypeResponse: the oneof group `response` holds success (a value),
\* error (a TypeErrors list) or nothing
InferTypeResponses ==
    { [response |-> "success", value |-> GraphValue(g), errors |-> <<>>] : g \in Graphs }
    \cup
    { [response |-> "success", value |-> [graph |-> PyNone], errors |-> <<>>] }
    \cup
    { [response |-> "error", value |-> [graph |-> PyNone], errors |-> te] :
          te \in TypeErrorLists }
    \cup
    { [response |-> "", value |-> [graph |-> PyNone], errors |-> <<>>] }

\* the message betterproto.which_one_of(response, "response") returns next to
\* the name: the member that is set, None when none is
WhichOneOfResponse(response) ==
    IF response.response = "success" THEN [value |-> response.value]
    ELSE IF response.response = "error" THEN [errors |-> response.errors]
    ELSE PyNone

AssertionError == [type |-> "AssertionError"]

AttributeError == [type |-> "AttributeError"]

\* `raise TierkreisTypeErrors.from_proto(errors)`: from_proto reads errors.errors
TypeErrorsFromProto(errors) ==
    IF errors = PyNone THEN Raise(AttributeError)
    ELSE Raise(TierkreisTypeErrors(errors.errors))

\* type_check_graph after infer_type has answered
TypeCheckEnd(reply) ==
    IF reply.failed THEN Raise(TransportError)
    ELSE LET name == reply.msg.response
             message == WhichOneOfResponse(reply.msg)
         IN  IF name = "success"
             THEN IF message.value.graph = PyNone
                  THEN Raise(AssertionError)
                  ELSE Return(GraphFromValue(message.value))
             ELSE TypeErrorsFromProto(message)

get_signature ==
    /\ Enter("get_signature", NoArgs)
    /\ stubs' = StubsAfter("signature")
    /\ nstubs' = NStubsAfter("signature")
    /\ sent' = <<[rpc |-> "list_functions", stub |-> stubs'["signature"], body |-> <<>>]>>
    /\ res' = NoOutcome
    /\ pc' = "list_functions"
    /\ UNCHANGED <<deleted, workerVars, sigVars, coroVars, bridgeVars>>

delete_task ==
    /\ stubs' = StubsAfter("runtime")
    /\ nstubs' = NStubsAfter("runtime")
    /\ \E id \in TaskIds :
          /\ Enter("delete_task", [NoArgs EXCEPT !.task = TaskHandle(id)])
          /\ sent' = <<DeleteTaskRequest(TaskHandle(id))>>
          /\ deleted' = [deleted EXCEPT ![id] = @ + 1]
    /\ res' = NoOutcome
    /\ pc' = "delete_task"
    /\ UNCHANGED <<workerVars, sigVars, coroVars, bridgeVars>>

type_check_graph ==
    /\ stubs' = StubsAfter("type")
    /\ nstubs' = NStubsAfter("type")
    /\ \E g \in Graphs :
          /\ Enter("type_check_graph", [NoArgs EXCEPT !.graph = g])
          /\ sent' = <<InferTypeRequest(g)>>
    /\ res' = NoOutcome
    /\ pc' = "infer_type"
    /\ UNCHANGED <<deleted, workerVars, sigVars, coroVars, bridgeVars>>

\* list_functions answers
list_functions_answered ==
    /\ pc = "list_functions"
    /\ \E reply \in {Delivered(m) : m \in SignatureReplies} \cup {TransportFailure} :
          /\ resp' = Append(resp, reply)
          /\ res' = GetSignatureEnd(reply)
    /\ pc' = "idle"
    /\ UNCHANGED <<op, args, sent, stubs, nstubs, ncalls, deleted, workerVars, sigVars, coroVars, bridgeVars>>

\* delete_task answers
delete_task_answered ==
    /\ pc = "delete_task"
    /\ \E reply \in {Delivered(m) : m \in DeleteTaskResponses} \cup {TransportFailure} :
          /\ resp' = Append(resp, reply)
          /\ res' = DeleteTaskEnd(reply)
    /\ pc' = "idle"
    /\ UNCHANGED <<op, args, sent, stubs, nstubs, ncalls, deleted, workerVars, sigVars, coroVars, bridgeVars>>

\* infer_type answers
infer_type_answered ==
    /\ pc = "infer_type"
    /\ \E reply \in {Delivered(m) : m \in InferTypeResponses} \cup {TransportFailure} :
          /\ resp' = Append(resp, reply)
          /\ res' = TypeCheckEnd(reply)
    /\ pc' = "idle"
    /\ UNCHANGED <<op, args, sent, stubs, nstubs, ncalls, deleted, workerVars, sigVars, coroVars, bridgeVars>>

Next ==
    \/ start_task
    \/ run_graph
    \/ await_task
    \/ list_tasks
    \/ get_signature
    \/ delete_task
    \/ type_check_graph
    \/ run_task_answered
    \/ await_task_answered
    \/ list_tasks_answered
    \/ list_functions_answered
    \/ delete_task_answered
    \/ infer_type_answered

Spec == Init /\ [][Next]_vars

(***************************************************************************)
(* Properties of the remaining client methods and of the stub cache,       *)
(* checked under Spec.                                                     *)
(***************************************************************************)
\* C12: type_check_graph returns a graph only when the discriminator of the
\* infer_type response is success, and for every other discriminator value
\* it raises TierkreisTypeErrors built from the response's list of errors.
C12_TypeCheckByDiscriminator ==
    (op = "type_check_graph" /\ pc = "idle" /\ Len(resp) = 1 /\ ~resp[1].failed) =>
        LET m == resp[1].msg
        IN  /\ res.tag = "return" => m.response = "success"
            /\ m.response # "success" =>
                   res = Raise(TierkreisTypeErrors(m.errors))

\* a type_check_graph answered by a response none of whose members is set
C12_Witness ==
    /\ op = "type_check_graph" /\ pc = "idle" /\ Len(resp) = 1
    /\ ~resp[1].failed
    /\ resp[1].msg.response = ""

\* the same statement on the responses one of whose members is set
TypeCheckOnSetMember ==
    (op = "type_check_graph" /\ pc = "idle" /\ Len(resp) = 1 /\ ~resp[1].failed
        /\ resp[1].msg.response # "") =>
        LET m == resp[1].msg
        IN  /\ res.tag = "return" =>
                   m.response = "success" /\ GraphValue(res.value) = m.value
            /\ m.response = "error" =>
                   res = Raise(TierkreisTypeErrors(m.errors))

\* the methods that make one stub call
SingleCallMethods ==
    {"get_signature", "start_task", "list_tasks", "await_task", "delete_task",
     "type_check_graph"}

\* C13: an invocation of get_signature, start_task, list_tasks, await_task,
\* delete_task or type_check_graph sends at most one request, also when the
\* call fails, and a failed call ends the method with the transport's error.
C13_NoRetry ==
    op \in SingleCallMethods =>
        /\ Len(sent) <= 1
        /\ Len(resp) <= Len(sent)
        /\ (Len(resp) = 1 /\ resp[1].failed) =>
               pc = "idle" /\ res = Raise(TransportError)

\* a method of the list whose one request failed
C13_Witness ==
    /\ op = "get_signature" /\ pc = "idle"
    /\ Len(sent) = 1 /\ Len(resp) = 1 /\ resp[1].failed

\* C14: every delete_task sends one delete request naming the handle's task
\* id and, whatever response is delivered, returns None; it raises only when
\* the stub call itself fails, however often the handle was deleted before.
C14_DeleteFireAndForget ==
    (op = "delete_task" /\ pc = "idle") =>
        /\ Len(sent) = 1
        /\ sent[1].rpc = "delete_task"
        /\ sent[1].body = [id |-> args.task.task_id]
        /\ Len(resp) = 1
        /\ ~resp[1].failed => res = Return(PyNone)
        /\ res.tag = "raise" => resp[1].failed /\ res = Raise(TransportError)

\* the second delete_task on one handle has returned
C14_Witness ==
    /\ op = "delete_task" /\ pc = "idle"
    /\ deleted[args.task.task_id] = 2
    /\ res = Return(PyNone)

\* the kinds whose stub is in the cache
CachedKinds == { k \in StubKinds : stubs[k] # NoStub }

\* C15: the cache holds at most one stub per kind, each made for its kind on
\* the client's channel and made once; every request goes through the cached
\* stub of its kind; an entry, once made, is never replaced or removed.
C15_StubCacheWriteOnce ==
    /\ [](/\ \A k \in CachedKinds :
                stubs[k].kind = k /\ stubs[k].channel = ClientChannel
          /\ nstubs = Cardinality(CachedKinds)
          /\ \A i \in 1..Len(sent) : sent[i].stub = stubs[sent[i].stub.kind])
    /\ [][\A k \in CachedKinds : stubs'[k] = stubs[k]]_vars

\* a second method is using the stub the first one created
C15_Witness ==
    /\ ncalls = 2 /\ nstubs = 1
    /\ Len(sent) = 1
    /\ sent[1].stub = stubs[sent[1].stub.kind]

(***************************************************************************)
(* Coroutines of one event loop sharing one RuntimeClient.  Each calls     *)
(* client methods; a method reads its stub through _stub_gen and then      *)
(* awaits the stub call.  _stub_gen is modelled statement by statement, so *)
(* that its atomicity is a consequence of the scheduling: the loop runs    *)
(* one coroutine until it reaches an await.                                *)
(***************************************************************************)
\* the client state no coroutine step touches
callVars == <<pc, op, args, sent, resp, res, ncalls, deleted>>

\* a scheduler that may switch coroutines between any two statements
MayRunAnytime(c) == TRUE

\* cooperative scheduling: a coroutine runs when the loop is free or is
\* already running it; control changes hands only at an await
MayRun(c) == running \in {"none", c}

\* a client method is called and _stub_gen evaluates `key not in self._stubs`
co_call(c) ==
    /\ copc[c] = "ready"
    /\ MayRun(c)
    /\ coops[c] < MaxOps
    /\ \E kind \in StubKinds :
          /\ cokind' = [cokind EXCEPT ![c] = kind]
          /\ comiss' = [comiss EXCEPT ![c] = (stubs[kind] = NoStub)]
    /\ coops' = [coops EXCEPT ![c] = @ + 1]
    /\ copc' = [copc EXCEPT ![c] = "checked"]
    /\ running' = c
    /\ UNCHANGED <<costub, stubs, nstubs, callVars, workerVars, sigVars, bridgeVars>>

\* `self._stubs[key] = stub_t(self._channel)` under the test, then
\* `stub = self._stubs[key]`
co_insert(c) ==
    /\ copc[c] = "checked"
    /\ MayRun(c)
    /\ IF comiss[c]
       THEN /\ stubs' = [stubs EXCEPT ![cokind[c]] = NewStub(cokind[c], nstubs + 1)]
            /\ nstubs' = nstubs + 1
       ELSE UNCHANGED <<stubs, nstubs>>
    /\ costub' = [costub EXCEPT ![c] = stubs'[cokind[c]]]
    /\ copc' = [copc EXCEPT ![c] = "have_stub"]
    /\ running' = c
    /\ UNCHANGED <<cokind, comiss, coops, callVars, workerVars, sigVars, bridgeVars>>

\* the stub call is awaited: the coroutine suspends at network I/O
co_await(c) ==
    /\ copc[c] = "have_stub"
    /\ MayRun(c)
    /\ copc' = [copc EXCEPT ![c] = "suspended"]
    /\ running' = "none"
    /\ UNCHANGED <<cokind, comiss, costub, coops, stubs, nstubs, callVars,
                   workerVars, sigVars, bridgeVars>>

\* the response arrives; the loop resumes the coroutine, which finishes the
\* method
co_resume(c) ==
    /\ copc[c] = "suspended"
    /\ MayRun(c)
    /\ copc' = [copc EXCEPT ![c] = "ready"]
    /\ running' = "none"
    /\ UNCHANGED <<cokind, comiss, costub, coops, stubs, nstubs, callVars,
                   workerVars, sigVars, bridgeVars>>

NextCoros ==
    \E c \in Coros :
        \/ co_call(c)
        \/ co_insert(c)
        \/ co_await(c)
        \/ co_resume(c)

SpecCoros == Init /\ [][NextCoros]_vars

\* C17: however the coroutines interleave at their awaits, as many stubs
\* have been constructed as there are kinds in the cache, and every
\* coroutine holding a stub holds the cached stub of its kind, so no two
\* coroutines hold different stubs of one kind.
C17_OneStubPerKind ==
    /\ nstubs = Cardinality(CachedKinds)
    /\ \A c \in Coros : costub[c] # NoStub => costub[c] = stubs[costub[c].kind]
    /\ \A c, d \in Coros :
          (costub[c] # NoStub /\ costub[c].kind = costub[d].kind) => costub[c] = costub[d]

\* all coroutines made their first call on one kind and are suspended on it
\* together
C17_Witness ==
    /\ \A c \in Coros : copc[c] = "suspended" /\ coops[c] = 1 /\ cokind[c] = "runtime"
    /\ nstubs = 1

(***************************************************************************)
(* async_to_sync and run_graph_block.  Calling threads call the blocking   *)
(* function sync; the wrapped asynchronous function is either some         *)
(* coroutine function, of which only the outcome matters, or the _run of   *)
(* run_graph_block.                                                        *)
(***************************************************************************)
\* what a wrapped coroutine function may end with
CoroOutcomes == {Return([value |-> "v"]), Raise([type |-> "CoroError"])}

\* the py_inputs run_graph_block is called with: none, or one value that has
\* no typed-value conversion
BlockInputs ==
    { d \in PyInputs : Len(d) = 0 \/ (Len(d) = 1 /\ d[1][1] = "n" /\ Incompatible(d[1][2])) }

\* answers of run_task to _run's client: a task id, type errors, no member
\* set, or a failed call
BlockRunTaskReplies ==
    { Delivered(m) : m \in { r \in RunTaskResponses :
                                r.task_id # "t2" /\ Len(r.type_errors) <= 1 } }
    \cup {TransportFailure}

\* answers of await_task to _run's client: success, failure, or a failed call
BlockAwaitTaskReplies ==
    { Delivered(m) : m \in { r \in AwaitTaskResponses :
                                \/ r.task.status = "failure" /\ r.task.text = "boom"
                                \/ r.task.status = "success" /\ DOMAIN r.task.map = {"result", "aux"} } }
    \cup {TransportFailure}

\* the other variables of the module
restVars == <<clientVars, workerVars, sigVars, coroVars>>

\* the pool workers of an executor
WorkersOf(e) == { w \in 1..Len(bthreads) : bthreads[w].executor = e }

\* a bridge whose submitted callable runs on the thread that called sync
RunsOnCaller(t, w) == t

\* the thread that runs a callable submitted to the executor: its pool worker
RunsOn(t, w) == w

\* a _run that calls run_graph on the calling client
RunClientSelf(self, fresh) == self

\* the client _run calls run_graph on: RuntimeClient(channel), constructed in
\* the `async with` block
RunClient(self, fresh) == fresh

\* sync(*args) is called: `with ThreadPoolExecutor(max_workers=1) as executor`
sync_call(t) ==
    /\ bcall[t].pc = "idle"
    /\ executors' = Append(executors, [max_workers |-> 1, owner |-> t, shutdown |-> FALSE])
    /\ \E f \in {"coro", "_run"} :
          \E i \in (IF f = "_run" THEN BlockInputs ELSE {<<>>}) :
              bcall' = [bcall EXCEPT ![t] = [NoCall EXCEPT !.pc = "entered", !.func = f,
                                                           !.inputs = i,
                                                           !.exec = Len(executors')]]
    /\ UNCHANGED <<bco, bthreads, loops, bchans, bclients, restVars>>

\* executor.submit(...): a pending future, and the pool starts its worker
submit(t) ==
    /\ bcall[t].pc = "entered"
    /\ Cardinality(WorkersOf(bcall[t].exec)) < executors[bcall[t].exec].max_workers
    /\ bthreads' = Append(bthreads, [kind |-> "worker", executor |-> bcall[t].exec,
                                     alive |-> TRUE])
    /\ bcall' = [bcall EXCEPT ![t].pc = "submitted"]
    /\ UNCHANGED <<bco, executors, loops, bchans, bclients, restVars>>

\* the submitted callable starts: asyncio.run creates a new event loop and
\* runs func(*args, **kwargs) on it
worker_run(t) ==
    /\ bcall[t].pc = "submitted"
    /\ bco[t].at = "none"
    /\ \E w \in WorkersOf(bcall[t].exec) :
          /\ loops' = Append(loops, [thread |-> RunsOn(t, w), closed |-> FALSE])
          /\ bco' = [bco EXCEPT ![t] = [NoCoroutine EXCEPT !.at = "start",
                                                           !.thread = RunsOn(t, w),
                                                           !.loop = Len(loops')]]
    /\ UNCHANGED <<bcall, executors, bthreads, bchans, bclients, restVars>>

\* the coroutine ends with the given outcome: asyncio.run closes its loop and
\* the outcome is set on the future
CoroutineEnds(t, outcome) ==
    /\ loops' = [loops EXCEPT ![bco[t].loop].closed = TRUE]
    /\ bcall' = [bcall EXCEPT ![t].fut = outcome]

\* a wrapped coroutine function runs to its end
coro_finish(t) ==
    /\ bcall[t].func = "coro"
    /\ bco[t].at = "start"
    /\ \E outcome \in CoroOutcomes : CoroutineEnds(t, outcome)
    /\ bco' = [bco EXCEPT ![t].at = "done"]
    /\ UNCHANGED <<executors, bthreads, bchans, bclients, restVars>>

\* _run: `async with Channel(host, port) as channel` with the host and port
\* of the calling client's channel, then RuntimeClient(channel)
run_open(t) ==
    /\ bcall[t].func = "_run"
    /\ bco[t].at = "start"
    /\ bchans' = Append(bchans, [host |-> bchans[bclients[SelfClient].channel].host,
                                 port |-> bchans[bclients[SelfClient].channel].port,
                                 open |-> TRUE, thread |-> bco[t].thread])
    /\ bclients' = Append(bclients, [channel |-> Len(bchans'), stubs |-> {}])
    /\ bco' = [bco EXCEPT ![t].at = "opened",
                          ![t].chan = Len(bchans'),
                          ![t].client = RunClient(SelfClient, Len(bclients'))]
    /\ UNCHANGED <<bcall, executors, bthreads, loops, restVars>>

\* the request a client sends through its runtime stub
BlockRequest(rpc, client) ==
    [rpc |-> rpc, client |-> client, channel |-> bclients[client].channel]

\* _run is left with the given outcome: the `async with` closes the channel,
\* then the coroutine ends
RunLeaves(t, outcome) ==
    /\ bchans' = ExitChannel(bchans, bco[t].chan, outcome)
    /\ CoroutineEnds(t, outcome)

\* run_graph on _run's client, up to the answer of run_task
run_start_task(t) ==
    /\ bcall[t].func = "_run"
    /\ bco[t].at = "opened"
    /\ LET c == ConvertFrom(bcall[t].inputs, 1, <<>>)
           cl == bco[t].client
       IN  IF ~c.ok
           THEN /\ RunLeaves(t, Raise(c.exc))
                /\ bco' = [bco EXCEPT ![t].at = "done"]
                /\ UNCHANGED bclients
           ELSE /\ bclients' = [bclients EXCEPT ![cl].stubs = @ \cup {"runtime"}]
                /\ \E reply \in BlockRunTaskReplies :
                      LET out == StartTaskEnd(reply)
                          sent1 == Append(bco[t].sent, BlockRequest("run_task", cl))
                      IN  IF out.tag = "return"
                          THEN /\ bco' = [bco EXCEPT ![t].at = "started",
                                                     ![t].sent = sent1,
                                                     ![t].handle = RunGraphHandle(out.value)]
                               /\ UNCHANGED <<bcall, loops, bchans>>
                          ELSE /\ bco' = [bco EXCEPT ![t].at = "done", ![t].sent = sent1]
                               /\ RunLeaves(t, out)
    /\ UNCHANGED <<executors, bthreads, restVars>>

\* run_graph on _run's client, from await_task to its answer
run_await_task(t) ==
    /\ bcall[t].func = "_run"
    /\ bco[t].at = "started"
    /\ bclients' = [bclients EXCEPT ![bco[t].client].stubs = @ \cup {"runtime"}]
    /\ \E reply \in BlockAwaitTaskReplies :
          RunLeaves(t, AwaitTaskEnd(reply))
    /\ bco' = [bco EXCEPT ![t].at = "done",
                          ![t].sent = Append(@, BlockRequest("await_task", bco[t].client))]
    /\ UNCHANGED <<executors, bthreads, restVars>>

\* future.result() has the outcome; leaving the `with` shuts the executor
\* down, joining its worker; sync returns or raises
sync_return(t) ==
    /\ bcall[t].pc = "submitted"
    /\ bcall[t].fut # NoOutcome
    /\ executors' = [executors EXCEPT ![bcall[t].exec].shutdown = TRUE]
    /\ bthreads' = [w \in DOMAIN bthreads |->
                       IF w \in WorkersOf(bcall[t].exec)
                       THEN [bthreads[w] EXCEPT !.alive = FALSE]
                       ELSE bthreads[w]]
    /\ bcall' = [bcall EXCEPT ![t].pc = "returned", ![t].res = bcall[t].fut]
    /\ UNCHANGED <<bco, loops, bchans, bclients, restVars>>

InitBridge ==
    /\ IdleClient
    /\ IdleWorker
    /\ IdleSig
    /\ IdleCoros
    /\ \E kinds \in {{}, {"runtime"}} : BridgeAt(kinds)

NextBridge ==
    \E t \in Callers :
        \/ sync_call(t)
        \/ submit(t)
        \/ worker_run(t)
        \/ coro_finish(t)
        \/ run_open(t)
        \/ run_start_task(t)
        \/ run_await_task(t)
        \/ sync_return(t)

SpecBridge == InitBridge /\ [][NextBridge]_vars

(***************************************************************************)
(* Properties of async_to_sync and run_graph_block, checked under          *)
(* SpecBridge.                                                             *)
(***************************************************************************)
\* C11: the wrapped call of every invocation runs on a new event loop in the
\* one worker thread of the invocation's own one-worker executor, never on a
\* calling thread; the invocation returns only after that run is complete,
\* with exactly the outcome of the run, and with its executor shut down.
C11_BridgeRunsOnOwnWorker ==
    \A t \in Callers :
        LET b == bcall[t]
            co == bco[t]
        IN  /\ b.exec # 0 =>
                  /\ executors[b.exec].max_workers = 1
                  /\ executors[b.exec].owner = t
                  /\ \A u \in Callers \ {t} : bcall[u].exec # b.exec
                  /\ executors[b.exec].shutdown => b.pc = "returned"
            /\ b.pc \in {"submitted", "returned"} => Cardinality(WorkersOf(b.exec)) = 1
            /\ co.at # "none" =>
                  /\ co.thread \notin Callers
                  /\ bthreads[co.thread].kind = "worker"
                  /\ co.thread \in WorkersOf(b.exec)
                  /\ loops[co.loop].thread = co.thread
                  /\ \A u \in Callers \ {t} : bco[u].loop # co.loop
                  /\ co.at # "done" => b.pc = "submitted" /\ b.fut = NoOutcome
            /\ b.pc = "returned" =>
                  /\ co.at = "done"
                  /\ loops[co.loop].closed
                  /\ b.fut # NoOutcome
                  /\ b.res = b.fut
                  /\ b.func = "coro" => b.res \in CoroOutcomes
                  /\ executors[b.exec].shutdown
                  /\ \A w \in WorkersOf(b.exec) : ~bthreads[w].alive

\* one invocation has raised the exception of its wrapped call to its caller
\* while the wrapped call of another is running on its worker
C11_Witness ==
    \E t, u \in Callers :
        /\ t # u
        /\ bcall[t].pc = "returned" /\ bcall[t].func = "coro"
        /\ bcall[t].res = Raise([type |-> "CoroError"])
        /\ bco[u].at = "start"

\* C18: _run of run_graph_block opens a channel of its own to the host and
\* port of the calling client's channel, in the worker thread, and calls
\* run_graph on a new client bound to it; every request goes through that
\* client and channel; the channel is closed when _run is left, with a result
\* or an exception; the calling client's channel and stub cache never change.
C18_BlockUsesFreshChannel ==
    /\ [](\A t \in Callers :
             (bcall[t].func = "_run" /\ bco[t].chan # 0) =>
                LET co == bco[t]
                IN  /\ co.chan # bclients[SelfClient].channel
                    /\ co.client # SelfClient
                    /\ bclients[co.client].channel = co.chan
                    /\ \A u \in Callers \ {t} : bco[u].chan # co.chan
                    /\ bchans[co.chan].host = bchans[SelfChannel].host
                    /\ bchans[co.chan].port = bchans[SelfChannel].port
                    /\ bchans[co.chan].thread = co.thread
                    /\ bthreads[co.thread].kind = "worker"
                    /\ \A k \in 1..Len(co.sent) :
                          co.sent[k].client = co.client /\ co.sent[k].channel = co.chan
                    /\ bchans[co.chan].open <=> co.at \in {"opened", "started"}
                    /\ bcall[t].pc = "returned" => ~bchans[co.chan].open)
    /\ [][/\ bclients'[SelfClient] = bclients[SelfClient]
          /\ bchans'[SelfChannel] = bchans[SelfChannel]]_vars

\* a run_graph_block has returned the outputs of its graph after both
\* requests, its channel closed
C18_Witness ==
    \E t \in Callers :
        /\ bcall[t].func = "_run" /\ bcall[t].pc = "returned"
        /\ bcall[t].res.tag = "return"
        /\ Len(bco[t].sent) = 2
        /\ ~bchans[bco[t].chan].open

\* a run_graph_block has raised to its caller, its channel closed
C18_WitnessRaised ==
    \E t \in Callers :
        /\ bcall[t].func = "_run" /\ bcall[t].pc = "returned"
        /\ bcall[t].res.tag = "raise"
        /\ ~bchans[bco[t].chan].open

=============================================================================
